---- MODULE Spec2Model ----
(***************************************************************************)
(* Model of examples/ray-trace/main.rs: the host thread that runs          *)
(* Example::new, the winit event loop (render / exit / delete), and the    *)
(* GPU queue that completes submissions behind it.                         *)
(*                                                                         *)
(* The host is one sequential process; pc is its position.  Every blade    *)
(* Context call of the source is one step, so that the order of calls, and *)
(* what the GPU may still be doing at each call, is visible in the state.  *)
(***************************************************************************)
EXTENDS Integers, Sequences, FiniteSets, TLC

(***************************************************************************)
(* Bounds of the model.                                                    *)
(***************************************************************************)
\* RedrawRequested events delivered in one run
MaxFrames == 3
\* width of the unsigned words of the group-count arithmetic (u32 in the source)
WordBits == 4
\* window width and height of the lifecycle specification: 1..MaxExtent
MaxExtent == 2
\* workgroup width and height of the lifecycle specification: 1..MaxWorkgroup
MaxWorkgroup == 2
\* largest BLAS scratch size the layout specification draws
MaxBlasScratch == 600
\* largest TLAS scratch size drawn
MaxTlasScratch == 1
\* largest acceleration-structure data size drawn
MaxDataSize == 1

(***************************************************************************)
(* Program constants.                                                      *)
(***************************************************************************)
\* blade::limits::ACCELERATION_STRUCTURE_SCRATCH_ALIGNMENT
ACCELERATION_STRUCTURE_SCRATCH_ALIGNMENT == 256
\* CommandEncoderDesc.buffer_count
buffer_count == 2

None == <<>>
Some(x) == <<x>>

Range(s) == {s[i] : i \in 1..Len(s)}
Count(s, x) == Cardinality({i \in 1..Len(s) : s[i] = x})

Word == 0..(2^WordBits - 1)

(***************************************************************************)
(* Arithmetic of the source.                                               *)
(***************************************************************************)
RECURSIVE BitOr(_, _)
\* a | b on unsigned integers
BitOr(a, b) ==
    IF a = 0 THEN b
    ELSE IF b = 0 THEN a
    ELSE (IF a % 2 = 1 \/ b % 2 = 1 THEN 1 ELSE 0) + 2 * BitOr(a \div 2, b \div 2)

\* TlasScratchOffset without its + 1
TlasScratchOffset_NoPlusOne(scratch, alignment) == BitOr(scratch, alignment - 1)

\* (blas_sizes.scratch | (ALIGNMENT - 1)) + 1
TlasScratchOffset(scratch, alignment) == BitOr(scratch, alignment - 1) + 1

\* extent + wg - 1 leaves the word
GroupOverflows(extent, wg) == extent + wg - 1 >= 2^WordBits

\* (extent + wg - 1) / wg in wrapping unsigned arithmetic (a build without
\* overflow checks)
GroupCount(extent, wg) == ((extent + wg - 1) % (2^WordBits)) \div wg

(***************************************************************************)
(* Recorded commands.                                                      *)
(***************************************************************************)
Cmd(op, res, n) == [op |-> op, res |-> res, n |-> n]

VARIABLES
    pc,                  \* position of the host thread
    ray_query,           \* capabilities.ray_query of the device
    overflow_checks,     \* the build panics on integer overflow (debug profile)
    window_size,         \* window.inner_size(): <<width, height>>
    wg_size,             \* rt_pipeline.get_workgroup_size(): <<x, y>>
    blas_sizes,          \* device answer: [data, scratch]
    tlas_sizes,          \* device answer: [data, scratch]
    screen_size,         \* Example.screen_size: <<width, height>>, None before it is set
    tlas_scratch_offset, \* local of new
    created,             \* handles created so far
    buffer_size,         \* size each created buffer was allocated with
    destroyed,           \* destroy calls, in order
    queries,             \* size queries issued, in order
    recording,           \* calls since command_encoder.start(), in order: the
                         \* commands recorded, and acquire_frame between them
    recordings,          \* number of command_encoder.start() calls
    submissions,         \* submitted recordings; the index is the sync point
    gpu_done,            \* submissions the GPU has completed (queue order)
    waits,               \* sync points wait_for has returned for, in order
    prev_sync_point,     \* Example.prev_sync_point
    sp,                  \* local `sp` of render / delete
    sync_point,          \* local `sync_point` of new / render
    frame_sync,          \* sync point returned by each frame's submit
    frames,              \* render() calls entered
    control_flow,        \* *control_flow of the event loop
    example,             \* main's `example`: is it Some
    deletes              \* Example::delete calls entered

vars == <<pc, ray_query, overflow_checks, window_size, wg_size, blas_sizes,
          tlas_sizes, screen_size, tlas_scratch_offset, created, buffer_size,
          destroyed, queries, recording, recordings, submissions, gpu_done,
          waits, prev_sync_point, sp, sync_point, frame_sync, frames,
          control_flow, example, deletes>>

\* what the device, the window and the shader hand to the program
inputs == <<ray_query, overflow_checks, window_size, wg_size, blas_sizes, tlas_sizes>>
\* the host's record of resources
resources == <<created, buffer_size, destroyed, queries>>
\* the command encoder and the queue
queue == <<recording, recordings, submissions, gpu_done, waits>>
\* sync-point bookkeeping of Example
slots == <<prev_sync_point, sp, sync_point, frame_sync>>
\* the event loop
loop == <<frames, control_flow, example, deletes>>

Sizes(datas, scratches) == [data : datas, scratch : scratches]

InitWith(caps, checks, windows, workgroups, blas, tlas) ==
    /\ pc = "start"
    /\ ray_query \in caps
    /\ overflow_checks \in checks
    /\ window_size \in windows
    /\ wg_size \in workgroups
    /\ blas_sizes \in blas
    /\ tlas_sizes \in tlas
    /\ screen_size = None
    /\ tlas_scratch_offset = 0
    /\ created = {}
    /\ buffer_size = <<>>
    /\ destroyed = <<>>
    /\ queries = <<>>
    /\ recording = <<>>
    /\ recordings = 0
    /\ submissions = <<>>
    /\ gpu_done = 0
    /\ waits = <<>>
    /\ prev_sync_point = None
    /\ sp = None
    /\ sync_point = None
    /\ frame_sync = <<>>
    /\ frames = 0
    /\ control_flow = "Poll"
    /\ example = FALSE
    /\ deletes = 0

\* scratch sizes on both sides of, and on, a multiple of the alignment
BlasScratchSizes == {0, 300, ACCELERATION_STRUCTURE_SCRATCH_ALIGNMENT}

Init ==
    InitWith(BOOLEAN, BOOLEAN,
             (1..MaxExtent) \X (1..MaxExtent),
             {<<g, g>> : g \in 1..MaxWorkgroup},
             Sizes(0..MaxDataSize, BlasScratchSizes),
             Sizes(0..MaxDataSize, 0..MaxTlasScratch))

(***************************************************************************)
(* The device context.                                                     *)
(***************************************************************************)
Create(hs) == created' = created \cup hs

CreateBuffer(h, size) ==
    /\ created' = created \cup {h}
    /\ buffer_size' = (h :> size) @@ buffer_size

Destroy(h) == destroyed' = Append(destroyed, h)

\* a size the context may refuse to allocate: creation panics, or goes through
MayRefuse(size) == size = 0

\* the command buffer the r-th command_encoder.start() hands out: the
\* encoder's buffers in turn
BufferOf(r) == (r - 1) % buffer_count

\* context.submit: the recording goes to the queue; the sync point returned is
\* the position of the submission in the queue
Submit ==
    /\ submissions' = Append(submissions, recording)
    /\ recording' = <<>>
    /\ sync_point' = Some(Len(submissions) + 1)

\* context.wait_for(sp, !0) can return: the GPU has completed submission sp
Completed(s) == s <= gpu_done

\* context.wait_for(&s, !0) returns
WaitFor(s) ==
    /\ Completed(s)
    /\ waits' = Append(waits, s)

\* the GPU completes its oldest unfinished submission
GpuComplete ==
    /\ gpu_done < Len(submissions)
    /\ gpu_done' = gpu_done + 1
    /\ UNCHANGED <<pc, inputs, screen_size, tlas_scratch_offset, resources,
                   recording, recordings, submissions, waits, slots, loop>>

(***************************************************************************)
(* Example::new                                                            *)
(***************************************************************************)
\* NewInitContext without the assert on capabilities.ray_query
NewInitContext_NoAssert ==
    /\ pc = "start"
    /\ pc' = "new_target"
    /\ Create({"context"})
    /\ UNCHANGED <<inputs, screen_size, tlas_scratch_offset, buffer_size,
                   destroyed, queries, queue, slots, loop>>

\* lines 44-56: init_windowed, capabilities, assert!(capabilities.ray_query)
NewInitContext ==
    /\ pc = "start"
    /\ pc' = IF ray_query THEN "new_target" ELSE "panicked"
    /\ Create({"context"})
    /\ UNCHANGED <<inputs, screen_size, tlas_scratch_offset, buffer_size,
                   destroyed, queries, queue, slots, loop>>

\* lines 58-79: screen_size, create_texture, create_texture_view
NewCreateTarget ==
    /\ pc = "new_target"
    /\ pc' = "new_pipelines"
    /\ screen_size' = window_size
    /\ Create({"target", "target_view"})
    /\ UNCHANGED <<inputs, tlas_scratch_offset, buffer_size, destroyed,
                   queries, queue, slots, loop>>

\* lines 81-107: resize, create_shader, create_compute_pipeline,
\* create_render_pipeline
NewCreatePipelines ==
    /\ pc = "new_pipelines"
    /\ pc' = "new_geometry"
    /\ Create({"shader", "rt_pipeline", "draw_pipeline"})
    /\ UNCHANGED <<inputs, screen_size, tlas_scratch_offset, buffer_size,
                   destroyed, queries, queue, slots, loop>>

\* lines 109-152: vertex and index buffers (3 vertices of 12 bytes, 3 indices
\* of 2 bytes)
NewCreateGeometry ==
    /\ pc = "new_geometry"
    /\ pc' = "new_blas"
    /\ created' = created \cup {"vertex_buf", "index_buf"}
    /\ buffer_size' = ("vertex_buf" :> 3 * 12) @@ ("index_buf" :> 3 * 2) @@ buffer_size
    /\ UNCHANGED <<inputs, screen_size, tlas_scratch_offset, destroyed,
                   queries, queue, slots, loop>>

\* lines 153-165: BLAS size query, BLAS buffer, BLAS handle.  new() does not
\* look at blas_sizes.data; what a size of zero does is up to the context:
\* create_buffer or create_acceleration_structure panics, or both go through.
NewCreateBlas ==
    /\ pc = "new_blas"
    /\ queries' = Append(queries, "blas_sizes")
    /\ \/ /\ pc' = "new_tlas"
          /\ created' = created \cup {"blas_buffer", "blas"}
          /\ buffer_size' = ("blas_buffer" :> blas_sizes.data) @@ buffer_size
       \/ /\ MayRefuse(blas_sizes.data)
          /\ pc' = "panicked"
          /\ UNCHANGED <<created, buffer_size>>
       \/ /\ MayRefuse(blas_sizes.data)
          /\ pc' = "panicked"
          /\ created' = created \cup {"blas_buffer"}
          /\ buffer_size' = ("blas_buffer" :> blas_sizes.data) @@ buffer_size
    /\ UNCHANGED <<inputs, screen_size, tlas_scratch_offset, destroyed,
                   queue, slots, loop>>

\* lines 167-191: TLAS size query, instance buffer (sized by the device
\* context), TLAS buffer, TLAS handle.  tlas_sizes.data is not looked at
\* either.
NewCreateTlas ==
    /\ pc = "new_tlas"
    /\ queries' = Append(queries, "tlas_sizes")
    /\ \/ /\ pc' = "new_scratch"
          /\ created' = created \cup {"instance_buffer", "tlas_buffer", "tlas"}
          /\ buffer_size' = ("tlas_buffer" :> tlas_sizes.data) @@ buffer_size
       \/ /\ MayRefuse(tlas_sizes.data)
          /\ pc' = "panicked"
          /\ created' = created \cup {"instance_buffer"}
          /\ UNCHANGED buffer_size
       \/ /\ MayRefuse(tlas_sizes.data)
          /\ pc' = "panicked"
          /\ created' = created \cup {"instance_buffer", "tlas_buffer"}
          /\ buffer_size' = ("tlas_buffer" :> tlas_sizes.data) @@ buffer_size
    /\ UNCHANGED <<inputs, screen_size, tlas_scratch_offset, destroyed,
                   queue, slots, loop>>

\* lines 192-199: tlas_scratch_offset, scratch buffer
NewCreateScratch ==
    /\ pc = "new_scratch"
    /\ pc' = "new_encoder"
    /\ tlas_scratch_offset' =
           TlasScratchOffset(blas_sizes.scratch, ACCELERATION_STRUCTURE_SCRATCH_ALIGNMENT)
    /\ CreateBuffer("scratch_buffer", tlas_scratch_offset' + tlas_sizes.scratch)
    /\ UNCHANGED <<inputs, screen_size, destroyed, queries, queue, slots, loop>>

\* lines 201-204: create_command_encoder
NewCreateEncoder ==
    /\ pc = "new_encoder"
    /\ pc' = "new_start"
    /\ Create({"command_encoder"})
    /\ UNCHANGED <<inputs, screen_size, tlas_scratch_offset, buffer_size,
                   destroyed, queries, queue, slots, loop>>

\* lines 205-206: command_encoder.start(), init_texture(target)
NewStart ==
    /\ pc = "new_start"
    /\ pc' = "new_build_blas"
    /\ recordings' = recordings + 1
    /\ recording' = <<Cmd("init_texture", "target", <<>>)>>
    /\ UNCHANGED <<inputs, screen_size, tlas_scratch_offset, resources,
                   submissions, gpu_done, waits, slots, loop>>

\* NewBuildBlas that records the BLAS build twice
NewBuildBlas_Twice ==
    /\ pc = "new_build_blas"
    /\ pc' = "new_build_tlas"
    /\ recording' = recording \o
           << Cmd("compute_begin", "", <<>>),
              Cmd("build_bottom_level", "blas", <<0>>),
              Cmd("build_bottom_level", "blas", <<0>>),
              Cmd("compute_end", "", <<>>) >>
    /\ UNCHANGED <<inputs, screen_size, tlas_scratch_offset, resources,
                   recordings, submissions, gpu_done, waits, slots, loop>>

\* NewBuildBlas with its pass left open, so that the TLAS build lands in the
\* pass of the BLAS build
NewBuildBlas_OpenPass ==
    /\ pc = "new_build_blas"
    /\ pc' = "new_build_tlas"
    /\ recording' = recording \o
           << Cmd("compute_begin", "", <<>>),
              Cmd("build_bottom_level", "blas", <<0>>) >>
    /\ UNCHANGED <<inputs, screen_size, tlas_scratch_offset, resources,
                   recordings, submissions, gpu_done, waits, slots, loop>>

\* lines 207-209: a compute pass holding the BLAS build, scratch at offset 0
NewBuildBlas ==
    /\ pc = "new_build_blas"
    /\ pc' = "new_build_tlas"
    /\ recording' = recording \o
           << Cmd("compute_begin", "", <<>>),
              Cmd("build_bottom_level", "blas", <<0>>),
              Cmd("compute_end", "", <<>>) >>
    /\ UNCHANGED <<inputs, screen_size, tlas_scratch_offset, resources,
                   recordings, submissions, gpu_done, waits, slots, loop>>

\* NewBuildTlas with the two blocks of the source swapped: the TLAS pass is
\* recorded ahead of the BLAS pass
NewBuildTlas_Swapped ==
    /\ pc = "new_build_tlas"
    /\ pc' = "new_submit"
    /\ recording' =
           << Cmd("compute_begin", "", <<>>),
              Cmd("build_top_level", "tlas", <<tlas_scratch_offset>>),
              Cmd("compute_end", "", <<>>) >> \o recording
    /\ UNCHANGED <<inputs, screen_size, tlas_scratch_offset, resources,
                   recordings, submissions, gpu_done, waits, slots, loop>>

\* lines 210-218: a second compute pass holding the TLAS build, scratch at
\* tlas_scratch_offset
NewBuildTlas ==
    /\ pc = "new_build_tlas"
    /\ pc' = "new_submit"
    /\ recording' = recording \o
           << Cmd("compute_begin", "", <<>>),
              Cmd("build_top_level", "tlas", <<tlas_scratch_offset>>),
              Cmd("compute_end", "", <<>>) >>
    /\ UNCHANGED <<inputs, screen_size, tlas_scratch_offset, resources,
                   recordings, submissions, gpu_done, waits, slots, loop>>

\* line 219: let sync_point = context.submit(&mut command_encoder)
NewSubmit ==
    /\ pc = "new_submit"
    /\ pc' = "new_wait"
    /\ Submit
    /\ UNCHANGED <<inputs, screen_size, tlas_scratch_offset, resources,
                   recordings, gpu_done, waits, prev_sync_point, sp,
                   frame_sync, loop>>

\* NewWait that goes on without waiting for the build
NewWait_NoWait ==
    /\ pc = "new_wait"
    /\ pc' = "new_destroy_vertex"
    /\ UNCHANGED <<inputs, screen_size, tlas_scratch_offset, resources,
                   queue, slots, loop>>

\* line 221: context.wait_for(&sync_point, !0)
NewWait ==
    /\ pc = "new_wait"
    /\ pc' = "new_destroy_vertex"
    /\ WaitFor(sync_point[1])
    /\ UNCHANGED <<inputs, screen_size, tlas_scratch_offset, resources,
                   recording, recordings, submissions, gpu_done, slots, loop>>

\* line 222: context.destroy_buffer(vertex_buf)
NewDestroyVertex ==
    /\ pc = "new_destroy_vertex"
    /\ pc' = "new_destroy_index"
    /\ Destroy("vertex_buf")
    /\ UNCHANGED <<inputs, screen_size, tlas_scratch_offset, created,
                   buffer_size, queries, queue, slots, loop>>

\* line 223: context.destroy_buffer(index_buf)
NewDestroyIndex ==
    /\ pc = "new_destroy_index"
    /\ pc' = "new_destroy_scratch"
    /\ Destroy("index_buf")
    /\ UNCHANGED <<inputs, screen_size, tlas_scratch_offset, created,
                   buffer_size, queries, queue, slots, loop>>

\* line 224: context.destroy_buffer(scratch_buffer)
NewDestroyScratch ==
    /\ pc = "new_destroy_scratch"
    /\ pc' = "new_destroy_instance"
    /\ Destroy("scratch_buffer")
    /\ UNCHANGED <<inputs, screen_size, tlas_scratch_offset, created,
                   buffer_size, queries, queue, slots, loop>>

\* line 225: context.destroy_buffer(instance_buffer)
NewDestroyInstance ==
    /\ pc = "new_destroy_instance"
    /\ pc' = "new_return"
    /\ Destroy("instance_buffer")
    /\ UNCHANGED <<inputs, screen_size, tlas_scratch_offset, created,
                   buffer_size, queries, queue, slots, loop>>

\* lines 227-240 and 327: Self { .., prev_sync_point: None, .. } becomes
\* main's Some(example); the local sync_point is dropped
NewReturn ==
    /\ pc = "new_return"
    /\ pc' = "loop"
    /\ prev_sync_point' = None
    /\ sync_point' = None
    /\ example' = TRUE
    /\ UNCHANGED <<inputs, screen_size, tlas_scratch_offset, resources, queue,
                   sp, frame_sync, frames, control_flow, deletes>>

(***************************************************************************)
(* The event loop of main                                                  *)
(***************************************************************************)
\* ControlFlow::Exit is final: winit ignores later assignments to it
SetControlFlow(cf) == IF control_flow = "Exit" THEN "Exit" ELSE cf

\* lines 330, 332-334: RedrawEventsCleared
EventRedrawEventsCleared ==
    /\ pc = "loop"
    /\ control_flow' = SetControlFlow("Poll")
    /\ UNCHANGED <<pc, inputs, screen_size, tlas_scratch_offset, resources,
                   queue, slots, frames, example, deletes>>

\* lines 330, 345-347: Escape pressed
EventEscape ==
    /\ pc = "loop"
    /\ control_flow' = "Exit"
    /\ UNCHANGED <<pc, inputs, screen_size, tlas_scratch_offset, resources,
                   queue, slots, frames, example, deletes>>

\* lines 330, 350-352: CloseRequested
EventCloseRequested ==
    /\ pc = "loop"
    /\ control_flow' = "Exit"
    /\ UNCHANGED <<pc, inputs, screen_size, tlas_scratch_offset, resources,
                   queue, slots, frames, example, deletes>>

\* lines 330, 355-357: RedrawRequested calls example.as_mut().unwrap().render()
EventRedrawRequested ==
    /\ pc = "loop"
    /\ example
    /\ frames < MaxFrames
    /\ control_flow' = SetControlFlow("Wait")
    /\ frames' = frames + 1
    /\ pc' = "render_start"
    /\ UNCHANGED <<inputs, screen_size, tlas_scratch_offset, resources,
                   queue, slots, example, deletes>>

\* lines 359-361: LoopDestroyed calls example.take().unwrap().delete()
EventLoopDestroyed ==
    /\ pc = "loop"
    /\ control_flow = "Exit"
    /\ example
    /\ example' = FALSE
    /\ deletes' = deletes + 1
    /\ pc' = "delete_wait"
    /\ UNCHANGED <<inputs, screen_size, tlas_scratch_offset, resources,
                   queue, slots, frames, control_flow>>

(***************************************************************************)
(* Example::render                                                         *)
(***************************************************************************)
\* line 255: self.command_encoder.start()
RenderStart ==
    /\ pc = "render_start"
    /\ pc' = "render_compute"
    /\ recordings' = recordings + 1
    /\ recording' = <<>>
    /\ UNCHANGED <<inputs, screen_size, tlas_scratch_offset, resources,
                   submissions, gpu_done, waits, slots, loop>>

\* lines 260-264: group_count
GroupCounts == << GroupCount(screen_size[1], wg_size[1]),
                  GroupCount(screen_size[2], wg_size[2]),
                  1 >>

\* RenderCompute that rebuilds the TLAS in every frame's compute pass
RenderCompute_Rebuilds ==
    /\ pc = "render_compute"
    /\ pc' = "render_acquire"
    /\ recording' = recording \o
           << Cmd("compute_begin", "", <<>>),
              Cmd("build_top_level", "tlas", <<tlas_scratch_offset>>),
              Cmd("dispatch", "target_view", GroupCounts),
              Cmd("compute_end", "", <<>>) >>
    /\ UNCHANGED <<inputs, screen_size, tlas_scratch_offset, resources,
                   recordings, submissions, gpu_done, waits, slots, loop>>

\* lines 257-284: the compute pass: bind the TLAS and the target view, dispatch.
\* With overflow checks an overflowing group count panics before the dispatch.
RenderCompute ==
    /\ pc = "render_compute"
    /\ IF overflow_checks /\ ( \/ GroupOverflows(screen_size[1], wg_size[1])
                               \/ GroupOverflows(screen_size[2], wg_size[2]) )
       THEN /\ pc' = "panicked"
            /\ recording' = Append(recording, Cmd("compute_begin", "", <<>>))
       ELSE /\ pc' = "render_acquire"
            /\ recording' = recording \o
                   << Cmd("compute_begin", "", <<>>),
                      Cmd("dispatch", "target_view", GroupCounts),
                      Cmd("compute_end", "", <<>>) >>
    /\ UNCHANGED <<inputs, screen_size, tlas_scratch_offset, resources,
                   recordings, submissions, gpu_done, waits, slots, loop>>

\* lines 286-287: acquire_frame, init_texture(frame.texture())
RenderAcquire ==
    /\ pc = "render_acquire"
    /\ pc' = "render_draw"
    /\ recording' = recording \o
           << Cmd("acquire_frame", "frame", <<>>),
              Cmd("init_texture", "frame", <<>>) >>
    /\ UNCHANGED <<inputs, screen_size, tlas_scratch_offset, resources,
                   recordings, submissions, gpu_done, waits, slots, loop>>

\* RenderDraw that draws twice
RenderDraw_Twice ==
    /\ pc = "render_draw"
    /\ pc' = "render_present"
    /\ recording' = recording \o
           << Cmd("render_begin", "frame", <<>>),
              Cmd("draw", "target_view", <<0, 3, 0, 1>>),
              Cmd("draw", "target_view", <<0, 3, 0, 1>>),
              Cmd("render_end", "", <<>>) >>
    /\ UNCHANGED <<inputs, screen_size, tlas_scratch_offset, resources,
                   recordings, submissions, gpu_done, waits, slots, loop>>

\* lines 289-306: the render pass on the frame: bind the target view,
\* draw(0, 3, 0, 1)
RenderDraw ==
    /\ pc = "render_draw"
    /\ pc' = "render_present"
    /\ recording' = recording \o
           << Cmd("render_begin", "frame", <<>>),
              Cmd("draw", "target_view", <<0, 3, 0, 1>>),
              Cmd("render_end", "", <<>>) >>
    /\ UNCHANGED <<inputs, screen_size, tlas_scratch_offset, resources,
                   recordings, submissions, gpu_done, waits, slots, loop>>

\* line 308: self.command_encoder.present(frame)
RenderPresent ==
    /\ pc = "render_present"
    /\ pc' = "render_submit"
    /\ recording' = Append(recording, Cmd("present", "frame", <<>>))
    /\ UNCHANGED <<inputs, screen_size, tlas_scratch_offset, resources,
                   recordings, submissions, gpu_done, waits, slots, loop>>

\* line 309: let sync_point = self.context.submit(&mut self.command_encoder)
RenderSubmit ==
    /\ pc = "render_submit"
    /\ pc' = "render_take"
    /\ Submit
    /\ frame_sync' = Append(frame_sync, sync_point'[1])
    /\ UNCHANGED <<inputs, screen_size, tlas_scratch_offset, resources,
                   recordings, gpu_done, waits, prev_sync_point, sp, loop>>

\* RenderTake that empties the slot and never waits on what it held
RenderTake_NoWait ==
    /\ pc = "render_take"
    /\ pc' = "render_store"
    /\ sp' = prev_sync_point
    /\ prev_sync_point' = None
    /\ UNCHANGED <<inputs, screen_size, tlas_scratch_offset, resources,
                   queue, sync_point, frame_sync, loop>>

\* line 311: if let Some(sp) = self.prev_sync_point.take()
RenderTake ==
    /\ pc = "render_take"
    /\ pc' = IF prev_sync_point = None THEN "render_store" ELSE "render_wait"
    /\ sp' = prev_sync_point
    /\ prev_sync_point' = None
    /\ UNCHANGED <<inputs, screen_size, tlas_scratch_offset, resources,
                   queue, sync_point, frame_sync, loop>>

\* RenderWait that returns without waiting (a wait with a zero timeout)
RenderWait_NoWait ==
    /\ pc = "render_wait"
    /\ pc' = "render_store"
    /\ UNCHANGED <<inputs, screen_size, tlas_scratch_offset, resources,
                   queue, slots, loop>>

\* line 312: self.context.wait_for(&sp, !0)
RenderWait ==
    /\ pc = "render_wait"
    /\ pc' = "render_store"
    /\ WaitFor(sp[1])
    /\ UNCHANGED <<inputs, screen_size, tlas_scratch_offset, resources,
                   recording, recordings, submissions, gpu_done, slots, loop>>

\* RenderStore that forgets the new sync point
RenderStore_DropsNew ==
    /\ pc = "render_store"
    /\ pc' = "loop"
    /\ prev_sync_point' = None
    /\ sync_point' = None
    /\ sp' = None
    /\ UNCHANGED <<inputs, screen_size, tlas_scratch_offset, resources,
                   queue, frame_sync, loop>>

\* RenderStore that puts the old sync point back instead of the new one
RenderStore_StoresOld ==
    /\ pc = "render_store"
    /\ pc' = "loop"
    /\ prev_sync_point' = sp
    /\ sync_point' = None
    /\ sp' = None
    /\ UNCHANGED <<inputs, screen_size, tlas_scratch_offset, resources,
                   queue, frame_sync, loop>>

\* lines 314-315: self.prev_sync_point = Some(sync_point); render returns
RenderStore ==
    /\ pc = "render_store"
    /\ pc' = "loop"
    /\ prev_sync_point' = sync_point
    /\ sync_point' = None
    /\ sp' = None
    /\ UNCHANGED <<inputs, screen_size, tlas_scratch_offset, resources,
                   queue, frame_sync, loop>>

(***************************************************************************)
(* Example::delete                                                         *)
(***************************************************************************)
\* DeleteWait that does not wait on the pending sync point
DeleteWait_Skip ==
    /\ pc = "delete_wait"
    /\ pc' = "delete_view"
    /\ sp' = prev_sync_point
    /\ UNCHANGED <<inputs, screen_size, tlas_scratch_offset, resources,
                   queue, prev_sync_point, sync_point, frame_sync, loop>>

\* lines 244-246: if let Some(sp) = self.prev_sync_point { wait_for(&sp, !0) }
DeleteWait ==
    /\ pc = "delete_wait"
    /\ pc' = "delete_view"
    /\ sp' = prev_sync_point
    /\ IF prev_sync_point = None
       THEN UNCHANGED waits
       ELSE WaitFor(prev_sync_point[1])
    /\ UNCHANGED <<inputs, screen_size, tlas_scratch_offset, resources,
                   recording, recordings, submissions, gpu_done,
                   prev_sync_point, sync_point, frame_sync, loop>>

\* line 247: destroy_texture_view(self.target_view)
DeleteView ==
    /\ pc = "delete_view"
    /\ pc' = "delete_texture"
    /\ Destroy("target_view")
    /\ UNCHANGED <<inputs, screen_size, tlas_scratch_offset, created,
                   buffer_size, queries, queue, slots, loop>>

\* line 248: destroy_texture(self.target)
DeleteTexture ==
    /\ pc = "delete_texture"
    /\ pc' = "delete_blas"
    /\ Destroy("target")
    /\ UNCHANGED <<inputs, screen_size, tlas_scratch_offset, created,
                   buffer_size, queries, queue, slots, loop>>

\* line 249: destroy_acceleration_structure(self.blas)
DeleteBlas ==
    /\ pc = "delete_blas"
    /\ pc' = "delete_blas_buffer"
    /\ Destroy("blas")
    /\ UNCHANGED <<inputs, screen_size, tlas_scratch_offset, created,
                   buffer_size, queries, queue, slots, loop>>

\* line 250: destroy_buffer(self.blas_buffer)
DeleteBlasBuffer ==
    /\ pc = "delete_blas_buffer"
    /\ pc' = "delete_tlas_buffer"
    /\ Destroy("blas_buffer")
    /\ UNCHANGED <<inputs, screen_size, tlas_scratch_offset, created,
                   buffer_size, queries, queue, slots, loop>>

\* lines 251-252: destroy_buffer(self.tlas_buffer); delete returns
DeleteTlasBuffer ==
    /\ pc = "delete_tlas_buffer"
    /\ pc' = "done"
    /\ Destroy("tlas_buffer")
    /\ UNCHANGED <<inputs, screen_size, tlas_scratch_offset, created,
                   buffer_size, queries, queue, slots, loop>>

(***************************************************************************)
(* The program                                                             *)
(***************************************************************************)
Next ==
    \/ NewInitContext
    \/ NewCreateTarget
    \/ NewCreatePipelines
    \/ NewCreateGeometry
    \/ NewCreateBlas
    \/ NewCreateTlas
    \/ NewCreateScratch
    \/ NewCreateEncoder
    \/ NewStart
    \/ NewBuildBlas
    \/ NewBuildTlas
    \/ NewSubmit
    \/ NewWait
    \/ NewDestroyVertex
    \/ NewDestroyIndex
    \/ NewDestroyScratch
    \/ NewDestroyInstance
    \/ NewReturn
    \/ EventRedrawEventsCleared
    \/ EventEscape
    \/ EventCloseRequested
    \/ EventRedrawRequested
    \/ EventLoopDestroyed
    \/ RenderStart
    \/ RenderCompute
    \/ RenderAcquire
    \/ RenderDraw
    \/ RenderPresent
    \/ RenderSubmit
    \/ RenderTake
    \/ RenderWait
    \/ RenderStore
    \/ DeleteWait
    \/ DeleteView
    \/ DeleteTexture
    \/ DeleteBlas
    \/ DeleteBlasBuffer
    \/ DeleteTlasBuffer
    \/ GpuComplete

\* the lifecycle, on a few windows, workgroups and device answers
Spec == Init /\ [][Next]_vars

\* the layout of the scratch buffer, on every BLAS scratch size up to
\* MaxBlasScratch
InitLayout ==
    InitWith({TRUE}, {FALSE}, {<<1, 1>>}, {<<1, 1>>},
             Sizes({1}, 0..MaxBlasScratch),
             Sizes({1}, 0..MaxTlasScratch))

SpecLayout == InitLayout /\ [][Next]_vars

\* the group counts, on every word-sized width and workgroup width (the code
\* treats the height as it treats the width)
InitDispatch ==
    InitWith({TRUE}, BOOLEAN,
             Word \X {1, 2^WordBits - 1},
             (Word \ {0}) \X {1, 2},
             Sizes({1}, {300}),
             Sizes({1}, {0}))

SpecDispatch == InitDispatch /\ [][Next]_vars

\* the steps of the host thread inside new, render and delete
HostStep ==
    \/ NewInitContext \/ NewCreateTarget \/ NewCreatePipelines
    \/ NewCreateGeometry \/ NewCreateBlas \/ NewCreateTlas \/ NewCreateScratch
    \/ NewCreateEncoder \/ NewStart \/ NewBuildBlas \/ NewBuildTlas \/ NewSubmit
    \/ NewWait \/ NewDestroyVertex \/ NewDestroyIndex \/ NewDestroyScratch
    \/ NewDestroyInstance \/ NewReturn
    \/ RenderStart \/ RenderCompute \/ RenderAcquire \/ RenderDraw
    \/ RenderPresent \/ RenderSubmit \/ RenderTake \/ RenderWait \/ RenderStore
    \/ DeleteWait \/ DeleteView \/ DeleteTexture \/ DeleteBlas
    \/ DeleteBlasBuffer \/ DeleteTlasBuffer

\* the host thread runs on when it can, the GPU completes what is submitted,
\* and the user ends the event loop
Fairness ==
    /\ WF_vars(HostStep)
    /\ WF_vars(GpuComplete)
    /\ WF_vars(EventEscape \/ EventCloseRequested)
    /\ WF_vars(EventLoopDestroyed)

InitLive ==
    InitWith(BOOLEAN, {FALSE},
             (1..MaxExtent) \X (1..MaxExtent), {<<1, 1>>},
             Sizes({1}, {300}),
             Sizes({1}, {0}))

\* the lifecycle under fairness
SpecLive == InitLive /\ [][Next]_vars /\ Fairness

(***************************************************************************)
(* Vocabulary of the properties                                            *)
(***************************************************************************)
Waited == Range(waits)
HasOp(r, op) == \E i \in 1..Len(r) : r[i].op = op

NewPcs == {"start", "new_target", "new_pipelines", "new_geometry", "new_blas",
           "new_tlas", "new_scratch", "new_encoder", "new_start",
           "new_build_blas", "new_build_tlas", "new_submit", "new_wait",
           "new_destroy_vertex", "new_destroy_index", "new_destroy_scratch",
           "new_destroy_instance", "new_return"}
RenderPcs == {"render_start", "render_compute", "render_acquire", "render_draw",
              "render_present", "render_submit", "render_take", "render_wait",
              "render_store"}
DeletePcs == {"delete_wait", "delete_view", "delete_texture", "delete_blas",
              "delete_blas_buffer", "delete_tlas_buffer"}

\* frames submitted whose sync point no wait has returned for
InFlight == {k \in 1..Len(frame_sync) : frame_sync[k] \notin Waited}

\* the smallest multiple of a that is >= s
AlignUp(s, a) == ((s + a - 1) \div a) * a
\* ceil(a / b) in unbounded integers
CeilDiv(a, b) == (a + b - 1) \div b

BuildInputs == {"vertex_buf", "index_buf", "scratch_buffer", "instance_buffer"}
Retained == {"blas", "blas_buffer", "tlas", "tlas_buffer"}
DeleteDestroys == {"target_view", "target", "blas", "blas_buffer", "tlas_buffer"}

(***************************************************************************)
(* C1  Wait-before-reuse in render()                                       *)
(***************************************************************************)
\* C1 as stated: for every frame after the first, the wait on the previous
\* frame's sync point has returned before the new frame is submitted, so the
\* render target is never referenced by two submitted-and-not-yet-waited
\* frames.
C1_WaitBeforeSubmit ==
    /\ \A k \in 2..Len(frame_sync) : frame_sync[k - 1] \in Waited
    /\ Cardinality(InFlight) <= 1

\* C1 as the code has it: render() submits frame k first and then waits on
\* frame k-1's sync point, and that wait returns before render() stores the new
\* sync point and returns.  The previous frame is unwaited only inside the
\* render() call that submitted its successor, between that call's submit and
\* its wait; frames in flight at the same time are consecutive frames.
C1_WaitBeforeReturn ==
    /\ \A k \in 2..Len(frame_sync) :
           \/ frame_sync[k - 1] \in Waited
           \/ k = Len(frame_sync) /\ pc \in {"render_take", "render_wait"}
    /\ \A i, j \in InFlight : i - j <= 1

C1_Witness ==
    /\ pc = "render_store"
    /\ Len(frame_sync) = 2
    /\ frame_sync[1] \in Waited
    /\ frame_sync[2] \notin Waited

(***************************************************************************)
(* C2  Teardown safety                                                     *)
(***************************************************************************)
\* C2: once delete() has issued a destroy call, or is about to issue its first,
\* every sync point submit ever returned has been waited on and the GPU has
\* completed every submission; a sync point pending in prev_sync_point has been
\* waited on.
C2_TeardownAfterWaits ==
    (pc \in (DeletePcs \ {"delete_wait"}) \cup {"done"}
       \/ Range(destroyed) \cap DeleteDestroys # {})
    => /\ \A s \in 1..Len(submissions) : s \in Waited
       /\ gpu_done = Len(submissions)
       /\ prev_sync_point # None => prev_sync_point[1] \in Waited

C2_Witness ==
    /\ pc = "delete_texture"
    /\ frames = 2
    /\ Len(submissions) = 3
    /\ destroyed[Len(destroyed)] = "target_view"
    /\ prev_sync_point = Some(3)

(***************************************************************************)
(* C3  BLAS build before TLAS build                                        *)
(***************************************************************************)
\* in recording r, every TLAS build comes after a BLAS build whose compute pass
\* was ended in between
BlasPassBeforeTlas(r) ==
    \A t \in 1..Len(r) :
        r[t].op = "build_top_level" =>
            \E b \in 1..(t - 1) :
                /\ r[b].op = "build_bottom_level"
                /\ \E e \in (b + 1)..(t - 1) : r[e].op = "compute_end"

\* C3 as stated: when the TLAS build is submitted, a wait on a sync point
\* covering the BLAS build has already returned.
C3_BlasWaitedBeforeTlasSubmit ==
    \A i \in 1..Len(submissions) :
        HasOp(submissions[i], "build_top_level") =>
            \E j \in Waited : j < i /\ HasOp(submissions[j], "build_bottom_level")

\* C3 as the code has it: the BLAS build is recorded in a compute pass of its
\* own, ended before the pass of the TLAS build is begun; both are in the one
\* build submission, nothing is waited on between them, and the one wait on
\* that submission's sync point has returned before new() releases anything or
\* any frame is recorded.
C3_BlasPassThenTlasOneSubmission ==
    /\ BlasPassBeforeTlas(recording)
    /\ \A i \in 1..Len(submissions) :
           /\ BlasPassBeforeTlas(submissions[i])
           /\ HasOp(submissions[i], "build_top_level") =>
                  /\ i = 1
                  /\ HasOp(submissions[i], "build_bottom_level")
    /\ HasOp(recording, "build_top_level") => waits = <<>>
    /\ (destroyed # <<>> \/ recordings > 1) =>
           /\ Len(submissions) >= 1
           /\ HasOp(submissions[1], "build_top_level")
           /\ 1 \in Waited

C3_Witness ==
    /\ pc = "new_destroy_vertex"
    /\ HasOp(submissions[1], "build_bottom_level")
    /\ HasOp(submissions[1], "build_top_level")
    /\ waits = <<1>>

(***************************************************************************)
(* C4  Scratch layout                                                      *)
(***************************************************************************)
\* C4: once the scratch buffer is allocated, tlas_scratch_offset is
\* align_up(blas_sizes.scratch, ALIGNMENT), the smallest multiple of ALIGNMENT
\* that is >= the BLAS scratch size, and the scratch buffer has size
\* tlas_scratch_offset + tlas_sizes.scratch; for ALIGNMENT = 256 and a scratch
\* size of 300 the offset is 512.
C4_OffsetIsAlignUp ==
    /\ TlasScratchOffset(300, 256) = 512
    /\ "scratch_buffer" \in created =>
           /\ tlas_scratch_offset =
                  AlignUp(blas_sizes.scratch, ACCELERATION_STRUCTURE_SCRATCH_ALIGNMENT)
           /\ buffer_size["scratch_buffer"] = tlas_scratch_offset + tlas_sizes.scratch

(***************************************************************************)
(* C5  Build-input release ordering                                        *)
(***************************************************************************)
\* C5: no build input (vertex, index, scratch, instance buffer) is destroyed
\* before wait_for on the build submission's sync point has returned; each is
\* destroyed at most once, and exactly once by the time new() returns; new()
\* destroys none of the BLAS, the TLAS and their backing buffers.
C5_ReleaseAfterBuildWait ==
    /\ Range(destroyed) \cap BuildInputs # {} =>
           /\ HasOp(submissions[1], "build_bottom_level")
           /\ HasOp(submissions[1], "build_top_level")
           /\ 1 \in Waited
           /\ gpu_done >= 1
    /\ \A h \in BuildInputs : Count(destroyed, h) <= 1
    /\ pc \notin NewPcs \cup {"panicked"} =>
           \A h \in BuildInputs : Count(destroyed, h) = 1
    /\ pc \in NewPcs \cup {"loop"} \cup RenderPcs =>
           Range(destroyed) \cap Retained = {}

C5_Witness ==
    /\ pc = "new_return"
    /\ destroyed = <<"vertex_buf", "index_buf", "scratch_buffer", "instance_buffer">>
    /\ waits = <<1>>

\* the GPU is still running the build while new() is at its wait
C5_DelayedCompletion ==
    /\ pc = "new_wait"
    /\ gpu_done = 0

(***************************************************************************)
(* C6  Sync-point slot discipline                                          *)
(***************************************************************************)
\* C6: prev_sync_point holds at most one sync point; between render() calls it
\* holds the sync point of the last frame submitted (None before the first);
\* as long as the Example lives (delete() consumes it) it never holds a sync
\* point that has been waited on; every wait of render()
\* is on the sync point of the frame just before the one it submitted, and the
\* waits follow the frames in order.
C6_SlotDiscipline ==
    /\ Len(prev_sync_point) <= 1
    /\ pc = "loop" =>
           /\ Len(frame_sync) = frames
           /\ prev_sync_point = IF frames = 0 THEN None ELSE Some(frame_sync[frames])
    /\ (prev_sync_point # None /\ pc \notin DeletePcs \cup {"done"}) =>
           prev_sync_point[1] \notin Waited
    /\ pc = "render_wait" =>
           /\ Len(frame_sync) >= 2
           /\ sp = Some(frame_sync[Len(frame_sync) - 1])
    /\ \A i \in 2..Len(waits) : waits[i] = frame_sync[i - 1]
    /\ \A i, j \in 1..Len(frame_sync) : i # j => frame_sync[i] # frame_sync[j]

C6_Witness ==
    /\ pc = "loop"
    /\ frames = 2
    /\ prev_sync_point = Some(frame_sync[2])
    /\ frame_sync[1] \in Waited

(***************************************************************************)
(* C7  Per-frame protocol                                                  *)
(***************************************************************************)
\* the calls of one frame, in order
FrameOps == <<"compute_begin", "dispatch", "compute_end", "acquire_frame",
              "init_texture", "render_begin", "draw", "render_end", "present">>

\* r is the start of one frame's calls: one dispatch of depth 1 and one draw
\* of 3 vertices and 1 instance
FramePrefix(r) ==
    /\ Len(r) <= Len(FrameOps)
    /\ \A i \in 1..Len(r) :
           /\ r[i].op = FrameOps[i]
           /\ r[i].op = "dispatch" => r[i].n[3] = 1
           /\ r[i].op = "draw" => r[i].n = <<0, 3, 0, 1>>

\* the state of the frame renderer
RendererState ==
    IF pc \notin RenderPcs THEN "Idle"
    ELSE IF pc \in {"render_take", "render_wait", "render_store"}
              \/ HasOp(recording, "present") THEN "FramePresented"
    ELSE IF HasOp(recording, "dispatch") THEN "ComputeDispatched"
    ELSE "Idle"

C7_Recordings ==
    /\ pc \in RenderPcs => FramePrefix(recording)
    /\ \A k \in 1..Len(frame_sync) :
           /\ FramePrefix(submissions[frame_sync[k]])
           /\ Len(submissions[frame_sync[k]]) = Len(FrameOps)
    /\ pc \in {"loop"} \cup DeletePcs \cup {"done"} =>
           /\ Len(frame_sync) = frames
           /\ Len(submissions) = 1 + frames
           /\ recordings = 1 + frames

C7_Transitions ==
    \/ RendererState' = RendererState
    \/ RendererState = "Idle" /\ RendererState' = "ComputeDispatched"
    \/ RendererState = "ComputeDispatched" /\ RendererState' = "FramePresented"
    \/ RendererState = "FramePresented" /\ RendererState' = "Idle"

\* C7: every render() call records one compute dispatch, then acquires the
\* frame, then records one draw of 3 vertices and 1 instance, then present, all
\* in one recording submitted once; the renderer goes Idle -> ComputeDispatched
\* -> FramePresented -> Idle.
C7_FrameProtocol == [](C7_Recordings) /\ [][C7_Transitions]_vars

C7_Witness ==
    /\ pc = "loop"
    /\ frames = 2
    /\ Len(submissions) = 3
    /\ Len(submissions[3]) = Len(FrameOps)
    /\ submissions[3][7] = Cmd("draw", "target_view", <<0, 3, 0, 1>>)

(***************************************************************************)
(* C8  Dispatch coverage                                                   *)
(***************************************************************************)
\* the dispatch d covers the screen: ceil(W / wx) by ceil(H / wy) by 1 groups
Covers(d) ==
    /\ d.n[1] = CeilDiv(screen_size[1], wg_size[1])
    /\ d.n[2] = CeilDiv(screen_size[2], wg_size[2])
    /\ d.n[1] * wg_size[1] >= screen_size[1]
    /\ d.n[2] * wg_size[2] >= screen_size[2]
    /\ d.n[3] = 1

\* C8: for every extent and workgroup size of the word range, render() computes
\* the group counts and dispatches ceil(W / wx) x ceil(H / wy) x 1 groups, which
\* cover every pixel.
C8_DispatchCovers ==
    /\ pc # "panicked"
    /\ \A i \in 1..Len(recording) :
           recording[i].op = "dispatch" => Covers(recording[i])
    /\ \A s \in 1..Len(submissions) : \A i \in 1..Len(submissions[s]) :
           submissions[s][i].op = "dispatch" => Covers(submissions[s][i])

(***************************************************************************)
(* C9  No leaked handle after teardown                                     *)
(***************************************************************************)
\* the handles the context has a destroy call for
Destructible == {"target", "target_view", "vertex_buf", "index_buf", "blas_buffer",
                 "blas", "instance_buffer", "tlas_buffer", "tlas", "scratch_buffer"}

\* C9: after delete() has returned, every handle new() created has been
\* destroyed exactly once, the BLAS and the TLAS and their buffers among them.
C9_NoLeakedHandle ==
    pc = "done" =>
        \A h \in created \cap Destructible : Count(destroyed, h) = 1

(***************************************************************************)
(* C10  Capability gate                                                    *)
(***************************************************************************)
\* C10: on a device without ray_query, new() panics with nothing but the
\* context created: no texture, buffer, pipeline, acceleration structure or
\* command encoder, no size query, no recording, no submission, no render().
C10_CapabilityGate ==
    ~ray_query =>
        /\ pc \in {"start", "panicked"}
        /\ created \subseteq {"context"}
        /\ queries = <<>>
        /\ recordings = 0
        /\ submissions = <<>>
        /\ frames = 0
        /\ ~example

C10_Witness ==
    /\ ~ray_query
    /\ pc = "panicked"
    /\ created = {"context"}

(***************************************************************************)
(* C11  Sizing errors are fatal                                            *)
(***************************************************************************)
BuildsRecorded(op) ==
    \/ HasOp(recording, op)
    \/ \E i \in 1..Len(submissions) : HasOp(submissions[i], op)

\* C11: a data size of zero from the size query for the BLAS or the TLAS
\* aborts new() at once: no backing buffer is allocated, no acceleration
\* structure is created and no build is recorded or submitted for it.
C11_ZeroSizeAborts ==
    /\ blas_sizes.data = 0 =>
           /\ pc \in {"start", "new_target", "new_pipelines", "new_geometry",
                      "new_blas", "panicked"}
           /\ created \cap {"blas_buffer", "blas"} = {}
           /\ ~BuildsRecorded("build_bottom_level")
    /\ tlas_sizes.data = 0 =>
           /\ pc \in {"start", "new_target", "new_pipelines", "new_geometry",
                      "new_blas", "new_tlas", "panicked"}
           /\ created \cap {"tlas_buffer", "tlas"} = {}
           /\ ~BuildsRecorded("build_top_level")

(***************************************************************************)
(* C12  In-flight cap                                                      *)
(***************************************************************************)
\* C12: at most 2 frames submitted by render() have a sync point not yet
\* waited on, and at most 1 whenever no render() call is in progress.
C12_InFlightCap ==
    /\ Cardinality(InFlight) <= 2
    /\ pc \notin RenderPcs => Cardinality(InFlight) <= 1

C12_Witness ==
    /\ pc = "render_wait"
    /\ Cardinality(InFlight) = 2
    /\ gpu_done < Len(submissions)

(***************************************************************************)
(* C13  Scratch regions never overlap                                      *)
(***************************************************************************)
\* the scratch offsets handed to the build calls of recording r: the BLAS
\* region [0, blas_sizes.scratch) and the TLAS region
\* [offset, offset + tlas_sizes.scratch) are disjoint, the TLAS offset is a
\* multiple of the alignment, and both regions lie in the scratch buffer
ScratchRegionsApart(r) ==
    \A i \in 1..Len(r) :
        /\ r[i].op = "build_bottom_level" =>
               /\ r[i].n = <<0>>
               /\ blas_sizes.scratch <= tlas_scratch_offset
               /\ blas_sizes.scratch <= buffer_size["scratch_buffer"]
        /\ r[i].op = "build_top_level" =>
               /\ r[i].n = <<tlas_scratch_offset>>
               /\ r[i].n[1] >= blas_sizes.scratch
               /\ r[i].n[1] % ACCELERATION_STRUCTURE_SCRATCH_ALIGNMENT = 0
               /\ r[i].n[1] + tlas_sizes.scratch <= buffer_size["scratch_buffer"]

PassOf(r, i) ==
    LET begins == {j \in 1..i : r[j].op = "compute_begin"}
    IN  IF begins = {} THEN 0 ELSE CHOOSE j \in begins : \A k \in begins : k <= j

\* in r the BLAS build and the TLAS build are in different passes, the pass of
\* the BLAS build ended before the pass of the TLAS build begins
SeparatePasses(r) ==
    \A b, t \in 1..Len(r) :
        (r[b].op = "build_bottom_level" /\ r[t].op = "build_top_level") =>
            /\ PassOf(r, b) > 0
            /\ PassOf(r, b) < b
            /\ PassOf(r, t) > b
            /\ \E e \in (b + 1)..(PassOf(r, t) - 1) : r[e].op = "compute_end"

\* C14: the two builds are never in one compute pass; the BLAS pass is ended
\* before the TLAS pass is begun and comes first in the command stream of the
\* one build submission, which holds one build of each.
C14_SeparateBuildPasses ==
    /\ SeparatePasses(recording)
    /\ \A s \in 1..Len(submissions) :
           /\ SeparatePasses(submissions[s])
           /\ s > 1 => /\ ~HasOp(submissions[s], "build_bottom_level")
                       /\ ~HasOp(submissions[s], "build_top_level")
    /\ Len(submissions) >= 1 =>
           /\ Cardinality({i \in 1..Len(submissions[1]) :
                              submissions[1][i].op = "build_bottom_level"}) = 1
           /\ Cardinality({i \in 1..Len(submissions[1]) :
                              submissions[1][i].op = "build_top_level"}) = 1

C14_Witness ==
    /\ pc = "new_wait"
    /\ Len(submissions[1]) = 7
    /\ submissions[1][3].op = "build_bottom_level"
    /\ submissions[1][4].op = "compute_end"
    /\ submissions[1][5].op = "compute_begin"
    /\ submissions[1][6].op = "build_top_level"

(***************************************************************************)
(* C15  Teardown dependency order                                          *)
(***************************************************************************)
\* the destroy calls of delete(), in order
DeleteCalls == SelectSeq(destroyed, LAMBDA h : h \notin BuildInputs)

\* views 1, textures 2, acceleration structures 3, buffers 4
Rank(h) ==
    IF h = "target_view" THEN 1
    ELSE IF h = "target" THEN 2
    ELSE IF h \in {"blas", "tlas"} THEN 3
    ELSE 4

\* a is destroyed, and before b is
DestroyedBefore(a, b) ==
    \E i \in 1..Len(destroyed) :
        /\ destroyed[i] = a
        /\ \A j \in 1..i : destroyed[j] # b

\* the order of delete()'s calls alone: wait, views, textures, acceleration
\* structures, buffers
C15_CallOrder ==
    /\ DeleteCalls # <<>> => (prev_sync_point # None => prev_sync_point[1] \in Waited)
    /\ \A i, j \in 1..Len(DeleteCalls) :
           i < j => Rank(DeleteCalls[i]) <= Rank(DeleteCalls[j])
    /\ "target" \in Range(destroyed) => DestroyedBefore("target_view", "target")
    /\ "blas_buffer" \in Range(destroyed) => DestroyedBefore("blas", "blas_buffer")

\* C15: delete() waits on the sync point, then destroys views, then textures,
\* then acceleration structures, then buffers; no view is destroyed after its
\* texture and no backing buffer of an acceleration structure before the
\* handle of that acceleration structure.
C15_TeardownOrder ==
    /\ C15_CallOrder
    /\ "tlas_buffer" \in Range(destroyed) => DestroyedBefore("tlas", "tlas_buffer")

(***************************************************************************)
(* C16  Build once, before any frame                                       *)
(***************************************************************************)
\* builds of kind op recorded so far, in the recording and in the submissions
Builds(op) ==
    Cardinality({i \in 1..Len(recording) : recording[i].op = op})
    + Cardinality(UNION { {<<s, i>> : i \in {k \in 1..Len(submissions[s]) :
                                                 submissions[s][k].op = op}} :
                          s \in 1..Len(submissions) })

\* C16: the BLAS and the TLAS are never built twice, and are each built once
\* in every run in which new() returns; the build submission's sync point has
\* been waited on before a frame is recorded; no render() call is made before
\* new() has returned.
C16_BuildOnceBeforeFrames ==
    /\ Builds("build_bottom_level") <= 1
    /\ Builds("build_top_level") <= 1
    /\ (example \/ deletes > 0) =>
           /\ Builds("build_bottom_level") = 1
           /\ Builds("build_top_level") = 1
           /\ HasOp(submissions[1], "build_bottom_level")
           /\ HasOp(submissions[1], "build_top_level")
    /\ (recordings > 1 \/ frames > 0) =>
           /\ example \/ deletes > 0
           /\ waits # <<>>
           /\ waits[1] = 1
    /\ pc \in NewPcs => frames = 0 /\ ~example /\ frame_sync = <<>>

C16_Witness ==
    /\ pc = "render_compute"
    /\ frames = 1
    /\ waits = <<1>>
    /\ Builds("build_top_level") = 1

(***************************************************************************)
(* C17  Frame effect of render()                                           *)
(***************************************************************************)
\* what a step of a render() call leaves alone
C17_Step ==
    pc \in RenderPcs =>
        /\ UNCHANGED <<created, buffer_size, destroyed, queries, screen_size,
                       tlas_scratch_offset, example, deletes>>
        /\ prev_sync_point' # prev_sync_point =>
               pc \in {"render_take", "render_store"}

\* what the recording of a frame holds: no build, and the render target as
\* the only resource of the renderer it touches
C17_FrameCommands(r) ==
    \A i \in 1..Len(r) :
        /\ r[i].op \notin {"build_bottom_level", "build_top_level"}
        /\ r[i].res \in {"", "frame", "target_view"}
        /\ r[i].res = "target_view" => r[i].op \in {"dispatch", "draw"}

C17_Recordings ==
    /\ pc \in RenderPcs => C17_FrameCommands(recording)
    /\ \A k \in 1..Len(frame_sync) : C17_FrameCommands(submissions[frame_sync[k]])

C18_BufferReuse ==
    /\ Len(submissions) \in {recordings - 1, recordings}
    /\ \A q \in 1..(recordings - 1) :
           BufferOf(q) = BufferOf(recordings) => q \in Waited

C18_Witness ==
    /\ pc = "render_compute"
    /\ recordings = 4
    /\ BufferOf(2) = BufferOf(4)
    /\ 2 \in Waited
    /\ 3 \notin Waited

(***************************************************************************)
(* C19  Every sync point is drained exactly once                           *)
(***************************************************************************)
C19_Waits ==
    /\ \A i \in 1..Len(waits) : waits[i] \in 1..Len(submissions)
    /\ \A s \in 1..Len(submissions) : Count(waits, s) <= 1
    /\ pc = "new_wait" => sync_point[1] \in 1..Len(submissions)
    /\ pc = "render_wait" => sp[1] \in 1..Len(submissions)
    /\ (pc = "delete_wait" /\ prev_sync_point # None) =>
           prev_sync_point[1] \in 1..Len(submissions)
    /\ pc \notin {"start", "new_target", "new_pipelines", "new_geometry",
                  "new_blas", "new_tlas", "new_scratch", "new_encoder",
                  "new_start", "new_build_blas", "new_build_tlas", "new_submit",
                  "new_wait", "panicked"} => waits[1] = 1
    /\ pc = "done" => \A s \in 1..Len(submissions) : Count(waits, s) = 1

\* C19: with the GPU completing what is submitted and the event loop shut
\* down in the end, every wait is on a sync point already submitted, no sync
\* point is waited on twice, the run reaches the end of delete() (or a panic
\* of new()), so no wait blocks forever, and at the end of delete() every sync
\* point has been waited on once.
C19_DrainedOnce == [](C19_Waits) /\ <>(pc \in {"done", "panicked"})

C19_Witness ==
    /\ pc = "done"
    /\ waits = <<1, 2, 3, 4>>
    /\ Len(submissions) = 4

(***************************************************************************)
(* C20  Teardown runs exactly once on every exit path                      *)
(***************************************************************************)
\* delete() is entered at most once, no render() runs once it has been, and
\* a run that leaves through the event loop has entered it once
C20_OnceThroughLoop ==
    /\ deletes <= 1
    /\ deletes > 0 => pc \in DeletePcs \cup {"done"}
    /\ pc = "done" => deletes = 1

\* C20: a run of main that entered new() and has ended, by Escape, by
\* CloseRequested or by a fatal error, has run delete() exactly once; no
\* render() call happens after delete() has started.
C20_TeardownOnEveryExit ==
    /\ C20_OnceThroughLoop
    /\ pc = "panicked" => deletes = 1

====
